---------------------------- MODULE Spec2Model ----------------------------
(***************************************************************************)
(* A model of gargantua's crawl engine (crawler.go): sitemap resolution    *)
(* (getURLs and its two probes), the crawl main loop with its URL queue    *)
(* and visited map, the work items built by createWorkRequest, the link    *)
(* extraction of getDependentRequests on strings, and the worker pool      *)
(* behind StartDispatcher / WorkQueue.                                     *)
(***************************************************************************)
EXTENDS Integers, Sequences, FiniteSets, Bags, TLC

(***************************************************************************)
(* Bounds of the model.                                                    *)
(***************************************************************************)
\* capacity of the pool's shared work channel WorkQueue
WorkQueueCapacity == 1
\* longest list of <url><loc> entries of the root sitemap in a crawl run
MaxSeeds == 1
\* largest number of links getDependentRequests returns for one page
MaxLinks == 4
\* longest list of entries of a sitemap document / of a sitemap index
MaxEntries == 2
\* largest number of <a href> elements of a document given to getDependentRequests
MaxHrefs == 4
\* number of calls of crawl in one process
MaxRuns == 2
\* longest list of entries of a child location that is itself a sitemap index
MaxNested == 1

(***************************************************************************)
(* Values.                                                                 *)
(***************************************************************************)
\* the canonical strings of the page URLs of the crawled host
URLs == {"a", "b", "c"}
\* the crawl runs of the model: options.NumberOfConcurrentRequests and the
\* pages the host serves
Configurations == {[workers |-> 1, pages |-> {"a", "b", "c"}],
                   [workers |-> 2, pages |-> {"a", "b"}]}
\* page locations a sitemap lists
PageLocs == {"a", "b"}
\* locations of child sitemaps a sitemap index lists
ChildLocs == {"s1", "s2"}
\* a location url.Parse rejects (an invalid escape)
BadLoc == "%"
\* the URL crawl is called with
xmlSitemapURL == "root"

NoError == "nil"
\* the error getSitemapIndex reports for content that is no sitemap index
InvalidSitemapIndexContent == "InvalidSitemapIndexContent"
\* the error getXMLSitemap reports for content that is no XML sitemap
InvalidXMLSitemapContent == "InvalidXMLSitemapContent"
\* a transport error of the download of a sitemap document
FetchError == "FetchError"
\* the error of url.Parse
ParseError == "ParseError"
\* the error of reading the body of a response
ReadError == "ReadError"
\* the error getURLs builds itself
NeitherError == "NeitherSitemapIndexNorXMLSitemap"

RECURSIVE SeqsUpTo(_, _)
SeqsUpTo(S, n) ==
    IF n = 0 THEN {<<>>}
    ELSE LET shorter == SeqsUpTo(S, n - 1)
         IN  shorter \cup {Append(s, x) : s \in {t \in shorter : Len(t) = n - 1}, x \in S}

Range(s) == {s[i] : i \in 1..Len(s)}

\* what getSitemapIndex can return for a document: an error, or the
\* locations of its <sitemap><loc> entries
IndexDocuments ==
    {[err |-> e, locs |-> <<>>] : e \in {InvalidSitemapIndexContent, FetchError}}
    \cup {[err |-> NoError, locs |-> l] : l \in SeqsUpTo(ChildLocs \cup {BadLoc}, MaxEntries)}

\* what getXMLSitemap can return for a document: an error, or the locations
\* of its <url><loc> entries
SitemapDocuments ==
    {[err |-> e, locs |-> <<>>] : e \in {InvalidXMLSitemapContent, FetchError}}
    \cup {[err |-> NoError, locs |-> l] : l \in SeqsUpTo(PageLocs \cup {BadLoc}, MaxEntries)}

\* what getSitemapIndex can return for a child location: an error, or the
\* locations of the entries of a sitemap index nested in the root index
NestedIndexDocuments ==
    {[err |-> InvalidSitemapIndexContent, locs |-> <<>>]}
    \cup {[err |-> NoError, locs |-> l] : l \in SeqsUpTo(ChildLocs, MaxNested)}

\* what getXMLSitemap can return for a location a root index or a nested
\* index lists: invalid content, or the locations of up to MaxNested pages
NestedSitemapDocuments ==
    {[err |-> InvalidXMLSitemapContent, locs |-> <<>>]}
    \cup {[err |-> NoError, locs |-> l] : l \in SeqsUpTo(PageLocs, MaxNested)}

\* no child location is a sitemap index
NoNestedIndex == [c \in ChildLocs |-> [err |-> InvalidSitemapIndexContent, locs |-> <<>>]]

\* the root as a flat sitemap in the runs of sitemap resolution: as
\* SitemapDocuments, with one entry less
RootSitemapDocuments ==
    {[err |-> e, locs |-> <<>>] : e \in {InvalidXMLSitemapContent, FetchError}}
    \cup {[err |-> NoError, locs |-> l] : l \in SeqsUpTo(PageLocs \cup {BadLoc}, MaxEntries - 1)}

VARIABLES
    \* the input of a run
    NumberOfConcurrentRequests, \* options.NumberOfConcurrentRequests
    hostURLs,           \* the pages of the crawled host
    rootIndex,          \* getSitemapIndex(xmlSitemapURL)
    rootSitemap,        \* getXMLSitemap(xmlSitemapURL)
    childSitemap,       \* getXMLSitemap(child location), per child location
    childIndex,         \* getSitemapIndex(child location), per child location
    \* crawl
    run,                \* the number of the call of crawl in this process
    pc,                 \* position of crawl: "start", "receive", "check", "mark", "submit", "returned"
    crawlError,         \* the error crawl returned (NoError: none)
    urlsFromXMLSitemap, \* the result of getURLs
    queueCreated,       \* crawlRequestQueue has been made
    queueCapacity,      \* its capacity
    crawlRequestQueue,  \* its buffered URLCrawlRequests
    queueClosed,        \* close(crawlRequestQueue) has run
    urlCrawlRequest,    \* the loop variable of the main loop
    visitedURLs,        \* the keys of the visitedURLs map
    WorkQueue,          \* the pool's shared work channel
    \* the worker pool
    dispatcherStarted,  \* StartDispatcher has run
    stop,               \* the stop signal has fired
    worker,             \* per worker: "idle", "fetch", "push", "stopped"
    workerRequest,      \* per worker: the URLCrawlRequest of its work item
    linksLeft,          \* per worker: links of the page still to send
    allWorkersHaveStopped, \* times the completion signal has fired
    crashed,            \* the process died of a panic
    \* history
    submitted,          \* the bag of the TargetURLs of the work requests handed to WorkQueue
    statistics,         \* the bag of (parentURL, url) of the updateStatistics calls
    executed,           \* one record per work item a worker ran to its end
    \* a call of getDependentRequests
    pageURL,            \* its baseURL: the URL of the page
    body,               \* its input: the document of the page
    extractPc,          \* position of the call: "call", "returned", "panic"
    extractedURLs,      \* the URLs it returned
    extractError        \* the error it returned

documents == <<NumberOfConcurrentRequests, hostURLs, rootIndex, rootSitemap, childSitemap,
               childIndex>>
crawlVars == <<pc, crawlError, urlsFromXMLSitemap, queueCreated, queueCapacity,
               crawlRequestQueue, queueClosed, urlCrawlRequest, visitedURLs, WorkQueue>>
poolVars == <<dispatcherStarted, stop, worker, workerRequest, linksLeft,
              allWorkersHaveStopped, crashed>>
history == <<submitted, statistics, executed>>
extraction == <<pageURL, body, extractPc, extractedURLs, extractError>>
vars == <<documents, run, crawlVars, poolVars, history, extraction>>

\* the workers StartDispatcher starts
Workers == 1..NumberOfConcurrentRequests

AllWorkers == UNION {1..c.workers : c \in Configurations}

(***************************************************************************)
(* Sitemap resolution.                                                     *)
(***************************************************************************)
\* url.Parse of a location: an error for BadLoc, else the URL
urlParse(loc) == IF loc = BadLoc THEN [url |-> "", err |-> ParseError]
                 ELSE [url |-> loc, err |-> NoError]

getSitemapIndex(u) == IF u = xmlSitemapURL THEN rootIndex ELSE childIndex[u]

getXMLSitemap(u) == IF u = xmlSitemapURL THEN rootSitemap ELSE childSitemap[u]

isInvalidSitemapIndexContent(err) == err = InvalidSitemapIndexContent

isInvalidXMLSitemapContent(err) == err = InvalidXMLSitemapContent

\* the loop of getURLsFromSitemap over sitemap.URLs
RECURSIVE sitemapEntries(_, _)
sitemapEntries(locs, urls) ==
    IF locs = <<>> THEN [urls |-> urls, err |-> NoError]
    ELSE LET parsed == urlParse(Head(locs))
         IN  IF parsed.err # NoError THEN [urls |-> <<>>, err |-> parsed.err]
             ELSE sitemapEntries(Tail(locs), Append(urls, parsed.url))

getURLsFromSitemap(u) ==
    LET sitemap == getXMLSitemap(u)
    IN  IF sitemap.err # NoError THEN [urls |-> <<>>, err |-> sitemap.err]
        ELSE sitemapEntries(sitemap.locs, <<>>)

\* (mutant) the pages of the sitemaps a nested sitemap index lists
RECURSIVE nestedEntries(_)
nestedEntries(locs) ==
    IF locs = <<>> THEN <<>>
    ELSE getURLsFromSitemap(Head(locs)).urls \o nestedEntries(Tail(locs))

\* (mutant) a child location is resolved as a flat sitemap and as a sitemap
\* index, like the root
RECURSIVE indexEntriesDeeper(_, _)
indexEntriesDeeper(locs, urls) ==
    IF locs = <<>> THEN [urls |-> urls, err |-> NoError]
    ELSE LET locationURL == urlParse(Head(locs))
         IN  IF locationURL.err # NoError THEN [urls |-> <<>>, err |-> locationURL.err]
             ELSE LET sitemapUrls == getURLsFromSitemap(locationURL.url)
                      nested == getSitemapIndex(locationURL.url)
                      nestedUrls == IF nested.err = NoError THEN nestedEntries(nested.locs)
                                    ELSE <<>>
                  IN  IF sitemapUrls.err # NoError /\ nested.err # NoError
                      THEN [urls |-> <<>>, err |-> sitemapUrls.err]
                      ELSE indexEntriesDeeper(Tail(locs),
                                              urls \o sitemapUrls.urls \o nestedUrls)

\* (mutant) a child sitemap that does not resolve is skipped
RECURSIVE indexEntriesSkipping(_, _)
indexEntriesSkipping(locs, urls) ==
    IF locs = <<>> THEN [urls |-> urls, err |-> NoError]
    ELSE LET locationURL == urlParse(Head(locs))
         IN  IF locationURL.err # NoError THEN indexEntriesSkipping(Tail(locs), urls)
             ELSE LET sitemapUrls == getURLsFromSitemap(locationURL.url)
                  IN  IF sitemapUrls.err # NoError
                      THEN indexEntriesSkipping(Tail(locs), urls)
                      ELSE indexEntriesSkipping(Tail(locs), urls \o sitemapUrls.urls)

\* the loop of getURLsFromSitemapIndex over sitemapIndex.Sitemaps
RECURSIVE indexEntries(_, _)
indexEntries(locs, urls) ==
    IF locs = <<>> THEN [urls |-> urls, err |-> NoError]
    ELSE LET locationURL == urlParse(Head(locs))
         IN  IF locationURL.err # NoError THEN [urls |-> <<>>, err |-> locationURL.err]
             ELSE LET sitemapUrls == getURLsFromSitemap(locationURL.url)
                  IN  IF sitemapUrls.err # NoError
                      THEN [urls |-> <<>>, err |-> sitemapUrls.err]
                      ELSE indexEntries(Tail(locs), urls \o sitemapUrls.urls)

getURLsFromSitemapIndex(u) ==
    LET sitemapIndex == getSitemapIndex(u)
    IN  IF sitemapIndex.err # NoError THEN [urls |-> <<>>, err |-> sitemapIndex.err]
        ELSE indexEntries(sitemapIndex.locs, <<>>)

\* (mutant) the URLs of the sitemap replace those of the index
getURLsOverwriting(u) ==
    LET fromIndex == getURLsFromSitemapIndex(u)
        fromSitemap == getURLsFromSitemap(u)
        urls1 == IF fromIndex.err = NoError THEN fromIndex.urls ELSE <<>>
        urls2 == IF fromSitemap.err = NoError THEN fromSitemap.urls ELSE urls1
    IN  IF isInvalidSitemapIndexContent(fromIndex.err)
           /\ isInvalidXMLSitemapContent(fromSitemap.err)
        THEN [urls |-> <<>>, err |-> NeitherError]
        ELSE [urls |-> urls2, err |-> NoError]

\* (mutant) the check of the two errors is left out
getURLsUnchecked(u) ==
    LET fromIndex == getURLsFromSitemapIndex(u)
        fromSitemap == getURLsFromSitemap(u)
        urls1 == IF fromIndex.err = NoError THEN fromIndex.urls ELSE <<>>
        urls2 == IF fromSitemap.err = NoError THEN urls1 \o fromSitemap.urls ELSE urls1
    IN  [urls |-> urls2, err |-> NoError]

\* (mutant) the error is returned when either probe reports invalid content
getURLsEitherInvalid(u) ==
    LET fromIndex == getURLsFromSitemapIndex(u)
        fromSitemap == getURLsFromSitemap(u)
        urls1 == IF fromIndex.err = NoError THEN fromIndex.urls ELSE <<>>
        urls2 == IF fromSitemap.err = NoError THEN urls1 \o fromSitemap.urls ELSE urls1
    IN  IF isInvalidSitemapIndexContent(fromIndex.err)
           \/ isInvalidXMLSitemapContent(fromSitemap.err)
        THEN [urls |-> <<>>, err |-> NeitherError]
        ELSE [urls |-> urls2, err |-> NoError]

getURLs(u) ==
    LET fromIndex == getURLsFromSitemapIndex(u)
        fromSitemap == getURLsFromSitemap(u)
        urls1 == IF fromIndex.err = NoError THEN fromIndex.urls ELSE <<>>
        urls2 == IF fromSitemap.err = NoError THEN urls1 \o fromSitemap.urls ELSE urls1
    IN  IF isInvalidSitemapIndexContent(fromIndex.err)
           /\ isInvalidXMLSitemapContent(fromSitemap.err)
        THEN [urls |-> <<>>, err |-> NeitherError]
        ELSE [urls |-> urls2, err |-> NoError]

(***************************************************************************)
(* Channels.                                                               *)
(***************************************************************************)
URLCrawlRequest(parent, target) == [ParentURL |-> parent, TargetURL |-> target]

NoRequest == [ParentURL |-> "", TargetURL |-> ""]

\* (mutant) a send that still proceeds when the buffer is full
canSendWhenFull(buffer, capacity) == Len(buffer) <= capacity

\* a send on a buffered channel proceeds only while the buffer has room
canSend(buffer, capacity) == Len(buffer) < capacity

\* a send appends to the buffer
send(buffer, message) == Append(buffer, message)

\* (mutant) a receive that takes the newest message of the buffer
receiveNewest(buffer) ==
    [message |-> buffer[Len(buffer)], buffer |-> SubSeq(buffer, 1, Len(buffer) - 1)]

\* a receive takes the oldest message of the buffer
receive(buffer) == [message |-> Head(buffer), buffer |-> Tail(buffer)]

(***************************************************************************)
(* Link extraction: getDependentRequests on strings.  A string is a        *)
(* sequence of characters.                                                 *)
(***************************************************************************)
Letters == {"a", "b", "c", "d", "e", "f", "g", "h", "i", "j", "k", "l", "m",
            "n", "o", "p", "q", "r", "s", "t", "u", "v", "w", "x", "y", "z"}
Digits == {"0", "1", "2", "3", "4", "5", "6", "7", "8", "9"}
HexDigits == Digits \cup {"a", "b", "c", "d", "e", "f"}

\* strings.HasPrefix
HasPrefix(s, prefix) == Len(s) >= Len(prefix) /\ SubSeq(s, 1, Len(prefix)) = prefix

\* strings.HasSuffix
HasSuffix(s, suffix) ==
    Len(s) >= Len(suffix) /\ SubSeq(s, Len(s) - Len(suffix) + 1, Len(s)) = suffix

\* strings.TrimSuffix
TrimSuffix(s, suffix) ==
    IF HasSuffix(s, suffix) THEN SubSeq(s, 1, Len(s) - Len(suffix)) ELSE s

\* strings.Contains, for a substring of one character
Contains(s, c) == \E i \in 1..Len(s) : s[i] = c

\* strings.Index, for a substring of one character: the index (from 0) of
\* its first occurrence, -1 when there is none
Index(s, c) ==
    IF Contains(s, c)
    THEN (CHOOSE i \in 1..Len(s) : s[i] = c /\ \A j \in 1..(i - 1) : s[j] # c) - 1
    ELSE -1

\* strings.LastIndex, for a substring of one character
LastIndex(s, c) ==
    IF Contains(s, c)
    THEN (CHOOSE i \in 1..Len(s) : s[i] = c /\ \A j \in (i + 1)..Len(s) : s[j] # c) - 1
    ELSE -1

\* the slice expression s[low:high] is defined for 0 <= low <= high <= len(s)
sliceInRange(s, low, high) == 0 <= low /\ low <= high /\ high <= Len(s)

\* the slice expression s[low:high]
slice(s, low, high) == SubSeq(s, low + 1, high)

\* the strings "://", "http://" and "https://"
schemeSeparator == <<":", "/", "/">>
httpPrefix == <<"h", "t", "t", "p">> \o schemeSeparator
httpsPrefix == <<"h", "t", "t", "p", "s">> \o schemeSeparator

\* the zero url.URL
NoURL == [Scheme |-> <<>>, Opaque |-> <<>>, Host |-> <<>>, Path |-> <<>>, Fragment |-> <<>>]

\* getScheme of net/url: the scheme is the letters, digits, "+", "-" and "."
\* before the first ":", when the first of them is a letter
RECURSIVE getScheme(_, _)
getScheme(rawURL, i) ==
    IF i > Len(rawURL) THEN [scheme |-> <<>>, rest |-> rawURL, err |-> NoError]
    ELSE IF rawURL[i] \in Letters THEN getScheme(rawURL, i + 1)
    ELSE IF rawURL[i] \in Digits \cup {"+", "-", "."}
         THEN IF i = 1 THEN [scheme |-> <<>>, rest |-> rawURL, err |-> NoError]
              ELSE getScheme(rawURL, i + 1)
    ELSE IF rawURL[i] = ":"
         THEN IF i = 1 THEN [scheme |-> <<>>, rest |-> <<>>, err |-> ParseError]
              ELSE [scheme |-> SubSeq(rawURL, 1, i - 1),
                    rest |-> SubSeq(rawURL, i + 1, Len(rawURL)), err |-> NoError]
    ELSE [scheme |-> <<>>, rest |-> rawURL, err |-> NoError]

\* every "%" of s begins an escape of two hexadecimal digits
validEscapes(s) ==
    \A i \in 1..Len(s) :
        s[i] = "%" => (i + 2 <= Len(s) /\ s[i + 1] \in HexDigits /\ s[i + 2] \in HexDigits)

\* parseHost of net/url without brackets: what follows the last ":" is a
\* port of digits, and the escapes are valid
validHost(host) ==
    /\ LET colon == LastIndex(host, ":")
       IN  colon # -1 => \A i \in (colon + 2)..Len(host) : host[i] \in Digits
    /\ validEscapes(host)
    /\ \A i \in 1..Len(host) :
          host[i] = "%" => (host[i + 1] \notin {"0", "1", "2", "3", "4", "5", "6", "7"}
                            \/ SubSeq(host, i, i + 2) = <<"%", "2", "5">>)

\* url.Parse of net/url for strings without "?", "@", "[", blanks and
\* control characters; Path and Fragment keep their escapes as written
Parse(rawURL) ==
    LET hash == Index(rawURL, "#")
        u == IF hash = -1 THEN rawURL ELSE slice(rawURL, 0, hash)
        frag == IF hash = -1 THEN <<>> ELSE slice(rawURL, hash + 1, Len(rawURL))
        split == getScheme(u, 1)
        rest == split.rest
        failure == [url |-> NoURL, err |-> ParseError]
    IN  IF split.err # NoError THEN failure
        ELSE IF ~validEscapes(frag) THEN failure
        ELSE IF ~HasPrefix(rest, <<"/">>) /\ split.scheme # <<>>
        THEN \* an opaque URL
             [url |-> [Scheme |-> split.scheme, Opaque |-> rest, Host |-> <<>>,
                       Path |-> <<>>, Fragment |-> frag],
              err |-> NoError]
        ELSE IF /\ ~HasPrefix(rest, <<"/">>)
                /\ LET slash == Index(rest, "/")
                       segment == IF slash = -1 THEN rest ELSE slice(rest, 0, slash)
                   IN  Contains(segment, ":")
        THEN \* the first path segment cannot contain a colon
             failure
        ELSE IF /\ split.scheme # <<>> \/ ~HasPrefix(rest, <<"/", "/", "/">>)
                /\ HasPrefix(rest, <<"/", "/">>)
        THEN LET afterSlashes == slice(rest, 2, Len(rest))
                 slash == Index(afterSlashes, "/")
                 authority == IF slash = -1 THEN afterSlashes
                              ELSE slice(afterSlashes, 0, slash)
                 path == IF slash = -1 THEN <<>>
                         ELSE slice(afterSlashes, slash, Len(afterSlashes))
             IN  IF ~validHost(authority) \/ ~validEscapes(path) THEN failure
                 ELSE [url |-> [Scheme |-> split.scheme, Opaque |-> <<>>,
                                Host |-> authority, Path |-> path, Fragment |-> frag],
                       err |-> NoError]
        ELSE IF ~validEscapes(rest) THEN failure
        ELSE [url |-> [Scheme |-> split.scheme, Opaque |-> <<>>, Host |-> <<>>,
                       Path |-> rest, Fragment |-> frag],
              err |-> NoError]

\* (url *URL) String() of net/url
String(u) ==
    LET scheme == IF u.Scheme # <<>> THEN u.Scheme \o <<":">> ELSE <<>>
        authority ==
            IF u.Scheme # <<>> \/ u.Host # <<>>
            THEN (IF u.Host # <<>> \/ u.Path # <<>> THEN <<"/", "/">> ELSE <<>>) \o u.Host
            ELSE <<>>
        separator ==
            IF u.Path # <<>> /\ u.Path[1] # "/" /\ u.Host # <<>> THEN <<"/">> ELSE <<>>
        fragment == IF u.Fragment # <<>> THEN <<"#">> \o u.Fragment ELSE <<>>
    IN  IF u.Opaque # <<>> THEN scheme \o u.Opaque \o fragment
        ELSE scheme \o authority \o separator \o u.Path \o fragment

\* the base the relative links of a document are resolved against
effectiveBase(baseURL, base) ==
    IF base = <<>> THEN baseURL.Scheme \o schemeSeparator \o baseURL.Host
    ELSE IF HasPrefix(base, <<"/">>)
         THEN baseURL.Scheme \o schemeSeparator \o baseURL.Host \o base
    ELSE base

\* the href attribute of a link made absolute
resolve(baseURL, base, href) ==
    IF HasPrefix(href, <<"/">>)
    THEN baseURL.Scheme \o schemeSeparator \o baseURL.Host \o href
    ELSE IF ~HasPrefix(href, httpPrefix) /\ ~HasPrefix(href, httpsPrefix)
         THEN TrimSuffix(base, <<"/">>) \o <<"/">> \o href
    ELSE href

\* (mutant) the external links are kept
sameHostAlways(hrefURL, baseURL) == TRUE

\* the external links are ignored
sameHost(hrefURL, baseURL) == hrefURL.Host = baseURL.Host

\* the callback of Each over the links of the document, link after link;
\* a slice expression out of range is a run-time panic
RECURSIVE eachLink(_, _, _, _)
eachLink(baseURL, base, hrefs, urls) ==
    IF hrefs = <<>> THEN [urls |-> urls, err |-> NoError, panic |-> FALSE]
    ELSE LET href == resolve(baseURL, base, Head(hrefs))
             hashPosition == Index(href, "#")
         IN  IF Contains(href, "#") /\ ~sliceInRange(href, 0, hashPosition - 1)
             THEN [urls |-> <<>>, err |-> NoError, panic |-> TRUE]
             ELSE LET cut == IF Contains(href, "#") THEN slice(href, 0, hashPosition - 1)
                             ELSE href
                      hrefURL == Parse(cut)
                  IN  IF hrefURL.err # NoError
                      THEN eachLink(baseURL, base, Tail(hrefs), urls)
                      ELSE IF ~sameHost(hrefURL.url, baseURL)
                      THEN eachLink(baseURL, base, Tail(hrefs), urls)
                      ELSE eachLink(baseURL, base, Tail(hrefs), Append(urls, hrefURL.url))

\* getDependentRequests(baseURL, input) for an input that reads as the
\* document doc: readError when the reader fails, base the href of its
\* <base>, hrefs the href attributes of its <a> elements
getDependentRequests(baseURL, doc) ==
    IF doc.readError THEN [urls |-> <<>>, err |-> ReadError, panic |-> FALSE]
    ELSE eachLink(baseURL, effectiveBase(baseURL, doc.base), doc.hrefs, <<>>)

\* the pages whose documents are given to getDependentRequests
examplePage == httpPrefix \o <<"e", "x", "a", "m", "p", "l", "e", ".", "c", "o", "m">> \o <<"/", "a", "/">>
otherPage == httpPrefix \o <<"o", "t", "h", "e", "r", ".", "c", "o", "m">> \o <<"/">>
PageURLs == {Parse(examplePage).url, Parse(otherPage).url}

\* the href attributes of the links of the documents: root-relative,
\* relative, absolute with a fragment, absolute on another host, an invalid
\* escape, a fragment alone
rootRelativeHref == <<"/", "x">>
relativeHref == <<"y">>
fragmentHref == httpPrefix \o <<"e", "x", "a", "m", "p", "l", "e", ".", "c", "o", "m">>
                    \o <<"/", "z", "#", "f", "r", "a", "g">>
externalHref == httpPrefix \o <<"o", "t", "h", "e", "r", ".", "c", "o", "m">> \o <<"/", "w">>
malformedHref == <<"%">>
fragmentOnlyHref == <<"#", "t", "o", "p">>
Hrefs == {rootRelativeHref, relativeHref, fragmentHref, externalHref, malformedHref,
          fragmentOnlyHref}

\* the href of the <base> of the documents: none, root-relative, a fragment
\* alone, absolute on another host
BaseHrefs == {<<>>, <<"/", "b", "/">>, <<"#">>, otherPage}

Bodies == [readError : BOOLEAN, base : BaseHrefs, hrefs : SeqsUpTo(Hrefs, MaxHrefs)]

\* no call of getDependentRequests is looked at
NoExtraction ==
    /\ pageURL = NoURL
    /\ body = [readError |-> FALSE, base |-> <<>>, hrefs |-> <<>>]
    /\ extractPc = "returned"
    /\ extractedURLs = <<>>
    /\ extractError = NoError

(***************************************************************************)
(* The initial states.                                                     *)
(***************************************************************************)
InitRun ==
    /\ run = 1
    /\ pc = "start"
    /\ crawlError = NoError
    /\ urlsFromXMLSitemap = <<>>
    /\ queueCreated = FALSE
    /\ queueCapacity = 0
    /\ crawlRequestQueue = <<>>
    /\ queueClosed = FALSE
    /\ urlCrawlRequest = NoRequest
    /\ visitedURLs = {}
    /\ WorkQueue = <<>>
    /\ dispatcherStarted = FALSE
    /\ stop = FALSE
    /\ worker = [w \in AllWorkers |-> "idle"]
    /\ workerRequest = [w \in AllWorkers |-> NoRequest]
    /\ linksLeft = [w \in AllWorkers |-> 0]
    /\ allWorkersHaveStopped = 0
    /\ crashed = FALSE
    /\ submitted = EmptyBag
    /\ statistics = EmptyBag
    /\ executed = {}

\* a crawl run: the root is a flat sitemap of up to MaxSeeds pages or no
\* sitemap at all, and is no sitemap index
Init ==
    /\ \E c \in Configurations :
          /\ NumberOfConcurrentRequests = c.workers
          /\ hostURLs = c.pages
    /\ \/ /\ rootIndex = [err |-> InvalidSitemapIndexContent, locs |-> <<>>]
          /\ rootSitemap \in {[err |-> InvalidXMLSitemapContent, locs |-> <<>>]}
                \cup {[err |-> NoError, locs |-> l] : l \in SeqsUpTo(hostURLs, MaxSeeds)}
       \/ /\ rootIndex = [err |-> FetchError, locs |-> <<>>]
          /\ rootSitemap = [err |-> InvalidXMLSitemapContent, locs |-> <<>>]
    /\ childSitemap = [c \in ChildLocs |-> [err |-> InvalidXMLSitemapContent, locs |-> <<>>]]
    /\ childIndex = NoNestedIndex
    /\ InitRun
    /\ NoExtraction

\* sitemap resolution: every combination of documents
SitemapInit ==
    /\ NumberOfConcurrentRequests = 1
    /\ hostURLs = PageLocs
    /\ rootIndex \in IndexDocuments
    /\ rootSitemap \in RootSitemapDocuments
    /\ childSitemap \in [ChildLocs -> SitemapDocuments]
    /\ childIndex = NoNestedIndex
    /\ InitRun
    /\ NoExtraction

(***************************************************************************)
(* crawl.                                                                  *)
(***************************************************************************)
\* the sitemap URLs as the URLCrawlRequests crawl fills the queue with
seedRequests(urls) == [i \in 1..Len(urls) |-> URLCrawlRequest(xmlSitemapURL, urls[i])]

\* crawl up to its main loop: getURLs, the queue and its filling,
\* StartDispatcher and the goroutine that waits for allWorkersHaveStopped
CrawlStart ==
    /\ ~crashed
    /\ pc = "start"
    /\ LET result == getURLs(xmlSitemapURL)
       IN  IF result.err # NoError
           THEN /\ crawlError' = result.err
                /\ pc' = "returned"
                /\ UNCHANGED <<urlsFromXMLSitemap, queueCreated, queueCapacity,
                               crawlRequestQueue, dispatcherStarted>>
           ELSE /\ urlsFromXMLSitemap' = result.urls
                /\ queueCreated' = TRUE
                /\ queueCapacity' = Len(result.urls)
                /\ crawlRequestQueue' = seedRequests(result.urls)
                /\ dispatcherStarted' = TRUE
                /\ pc' = "receive"
                /\ UNCHANGED crawlError
    /\ UNCHANGED <<documents, extraction, run, queueClosed, urlCrawlRequest, visitedURLs, WorkQueue,
                   stop, worker, workerRequest, linksLeft,
                   allWorkersHaveStopped, crashed, history>>

\* for urlCrawlRequest := range crawlRequestQueue
CrawlReceive ==
    /\ ~crashed
    /\ pc = "receive"
    /\ IF crawlRequestQueue # <<>>
       THEN /\ urlCrawlRequest' = receive(crawlRequestQueue).message
            /\ crawlRequestQueue' = receive(crawlRequestQueue).buffer
            /\ pc' = "check"
       ELSE /\ queueClosed
            /\ pc' = "returned"
            /\ UNCHANGED <<urlCrawlRequest, crawlRequestQueue>>
    /\ UNCHANGED <<documents, extraction, run, crawlError, urlsFromXMLSitemap, queueCreated, queueCapacity,
                   queueClosed, visitedURLs, WorkQueue, poolVars, history>>

\* (mutant) a lookup that never finds the URL
alreadyVisitedNever(request) == FALSE

\* the lookup in visitedURLs under the read lock
alreadyVisited(request) == request.TargetURL \in visitedURLs

CrawlCheckVisited ==
    /\ ~crashed
    /\ pc = "check"
    /\ pc' = IF alreadyVisited(urlCrawlRequest) THEN "receive" ELSE "mark"
    /\ UNCHANGED <<documents, extraction, run, crawlError, urlsFromXMLSitemap, queueCreated, queueCapacity,
                   crawlRequestQueue, queueClosed, urlCrawlRequest, visitedURLs, WorkQueue,
                   poolVars, history>>

\* (mutant) the write stores the parent of the request, not its target
CrawlMarkParent ==
    /\ ~crashed
    /\ pc = "mark"
    /\ visitedURLs' = visitedURLs \cup {urlCrawlRequest.ParentURL}
    /\ pc' = "submit"
    /\ UNCHANGED <<documents, extraction, run, crawlError, urlsFromXMLSitemap, queueCreated, queueCapacity,
                   crawlRequestQueue, queueClosed, urlCrawlRequest, WorkQueue,
                   poolVars, history>>

\* the write to visitedURLs under the write lock
CrawlMarkVisited ==
    /\ ~crashed
    /\ pc = "mark"
    /\ visitedURLs' = visitedURLs \cup {urlCrawlRequest.TargetURL}
    /\ pc' = "submit"
    /\ UNCHANGED <<documents, extraction, run, crawlError, urlsFromXMLSitemap, queueCreated, queueCapacity,
                   crawlRequestQueue, queueClosed, urlCrawlRequest, WorkQueue,
                   poolVars, history>>

\* the work request createWorkRequest builds: its Execute refers to the
\* request and to newUrls, the queue of the run that made it
createWorkRequest(request, newUrls) ==
    [ParentURL |-> request.ParentURL, TargetURL |-> request.TargetURL, newUrls |-> newUrls]

\* WorkQueue <- createWorkRequest(urlCrawlRequest, crawlRequestQueue)
CrawlSubmit ==
    /\ ~crashed
    /\ pc = "submit"
    /\ canSend(WorkQueue, WorkQueueCapacity)
    /\ WorkQueue' = send(WorkQueue, createWorkRequest(urlCrawlRequest, run))
    /\ submitted' = submitted (+) SetToBag({urlCrawlRequest.TargetURL})
    /\ pc' = "receive"
    /\ UNCHANGED <<documents, extraction, run, crawlError, urlsFromXMLSitemap, queueCreated, queueCapacity,
                   crawlRequestQueue, queueClosed, urlCrawlRequest, visitedURLs,
                   poolVars, statistics, executed>>

\* (mutant) the goroutine closes the queue when the stop signal fires
CloseQueueOnStop ==
    /\ ~crashed
    /\ queueCreated
    /\ ~queueClosed
    /\ stop
    /\ queueClosed' = TRUE
    /\ UNCHANGED <<documents, extraction, run, pc, crawlError, urlsFromXMLSitemap, queueCreated,
                   queueCapacity, crawlRequestQueue, urlCrawlRequest, visitedURLs,
                   WorkQueue, poolVars, history>>

\* the goroutine of crawl: case <-allWorkersHaveStopped: close(crawlRequestQueue)
CloseQueue ==
    /\ ~crashed
    /\ queueCreated
    /\ ~queueClosed
    /\ allWorkersHaveStopped > 0
    /\ queueClosed' = TRUE
    /\ UNCHANGED <<documents, extraction, run, pc, crawlError, urlsFromXMLSitemap, queueCreated,
                   queueCapacity, crawlRequestQueue, urlCrawlRequest, visitedURLs,
                   WorkQueue, poolVars, history>>

\* crawl is called again in the same process after it has returned: the
\* locals of crawl and the pool StartDispatcher starts are new, the package
\* variables visitedURLs and WorkQueue are those of the process
CrawlAgain ==
    /\ ~crashed
    /\ pc = "returned"
    /\ run < MaxRuns
    /\ run' = run + 1
    /\ pc' = "start"
    /\ crawlError' = NoError
    /\ urlsFromXMLSitemap' = <<>>
    /\ queueCreated' = FALSE
    /\ queueCapacity' = 0
    /\ crawlRequestQueue' = <<>>
    /\ queueClosed' = FALSE
    /\ urlCrawlRequest' = NoRequest
    /\ dispatcherStarted' = FALSE
    /\ stop' = FALSE
    /\ worker' = [w \in AllWorkers |-> "idle"]
    /\ workerRequest' = [w \in AllWorkers |-> NoRequest]
    /\ linksLeft' = [w \in AllWorkers |-> 0]
    /\ allWorkersHaveStopped' = 0
    /\ submitted' = EmptyBag
    /\ statistics' = EmptyBag
    /\ executed' = {}
    /\ UNCHANGED <<documents, extraction, visitedURLs, WorkQueue, crashed>>

(***************************************************************************)
(* The worker pool: StartDispatcher's workers, each pulling work requests  *)
(* from WorkQueue until the stop signal, and the completion signal.        *)
(***************************************************************************)
\* the external stop signal
Stop ==
    /\ ~crashed
    /\ ~stop
    /\ stop' = TRUE
    /\ UNCHANGED <<documents, extraction, run, crawlVars, dispatcherStarted, worker, workerRequest,
                   linksLeft, allWorkersHaveStopped, crashed, history>>

\* (mutant) a worker that does not look at the stop signal before it pulls
mayTakeWorkAlways == TRUE

\* a worker pulls work only while the stop signal has not fired
mayTakeWork == ~stop

\* a running worker pulls the next work request and starts to execute it
WorkerTake(w) ==
    /\ ~crashed
    /\ dispatcherStarted
    /\ w \in Workers
    /\ worker[w] = "idle"
    /\ mayTakeWork
    /\ WorkQueue # <<>>
    /\ workerRequest' = [workerRequest EXCEPT ![w] = receive(WorkQueue).message]
    /\ WorkQueue' = receive(WorkQueue).buffer
    /\ worker' = [worker EXCEPT ![w] = "fetch"]
    /\ UNCHANGED <<documents, extraction, run, pc, crawlError, urlsFromXMLSitemap, queueCreated,
                   queueCapacity, crawlRequestQueue, queueClosed, urlCrawlRequest,
                   visitedURLs, dispatcherStarted, stop, linksLeft,
                   allWorkersHaveStopped, crashed, history>>

\* a worker that is between two work items observes the stop signal and exits
WorkerExit(w) ==
    /\ ~crashed
    /\ dispatcherStarted
    /\ w \in Workers
    /\ worker[w] = "idle"
    /\ stop
    /\ worker' = [worker EXCEPT ![w] = "stopped"]
    /\ UNCHANGED <<documents, extraction, run, crawlVars, dispatcherStarted, stop, workerRequest,
                   linksLeft, allWorkersHaveStopped, crashed, history>>

\* the completion signal may fire: every worker has exited, and it has not fired
mayComplete == (\A w \in Workers : worker[w] = "stopped") /\ allWorkersHaveStopped = 0

\* the completion signal fires
DispatcherComplete ==
    /\ ~crashed
    /\ dispatcherStarted
    /\ mayComplete
    /\ allWorkersHaveStopped' = allWorkersHaveStopped + 1
    /\ UNCHANGED <<documents, extraction, run, crawlVars, dispatcherStarted, stop, worker, workerRequest,
                   linksLeft, crashed, history>>

(***************************************************************************)
(* Execute of the work request createWorkRequest builds.                   *)
(***************************************************************************)
\* the WorkResult handed to updateStatistics: its parentURL and url
workResult(request) == <<request.ParentURL, request.TargetURL>>

updateStatistics(result) == statistics (+) SetToBag({result})

\* the record of a finished work item
executedItem(request, outcome) ==
    [ParentURL |-> request.ParentURL, TargetURL |-> request.TargetURL, outcome |-> outcome]

\* Execute from readURL to the start of the loop over the links.  outcome:
\*   "transportError"  readURL failed
\*   "notHTML"         a response that is not HTML
\*   "extractError"    HTML, getDependentRequests returned an error
\*   "extractPanic"    HTML, getDependentRequests sliced out of range
\*   "html"            HTML, getDependentRequests returned n links
ExecuteFetch(w) ==
    /\ ~crashed
    /\ worker[w] = "fetch"
    /\ \E outcome \in {"transportError", "notHTML", "extractError", "extractPanic", "html"},
          n \in 0..MaxLinks :
          /\ outcome # "html" => n = 0
          /\ CASE outcome \in {"transportError", "extractError"} ->
                    /\ worker' = [worker EXCEPT ![w] = "idle"]
                    /\ executed' = executed \cup {executedItem(workerRequest[w], outcome)}
                    /\ UNCHANGED <<statistics, linksLeft, crashed>>
               [] outcome = "notHTML" ->
                    /\ worker' = [worker EXCEPT ![w] = "idle"]
                    /\ statistics' = updateStatistics(workResult(workerRequest[w]))
                    /\ executed' = executed \cup {executedItem(workerRequest[w], outcome)}
                    /\ UNCHANGED <<linksLeft, crashed>>
               [] outcome = "extractPanic" ->
                    /\ crashed' = TRUE
                    /\ executed' = executed \cup {executedItem(workerRequest[w], outcome)}
                    /\ UNCHANGED <<worker, statistics, linksLeft>>
               [] outcome = "html" ->
                    /\ worker' = [worker EXCEPT ![w] = "push"]
                    /\ linksLeft' = [linksLeft EXCEPT ![w] = n]
                    /\ UNCHANGED <<statistics, executed, crashed>>
    /\ UNCHANGED <<documents, extraction, run, crawlVars, dispatcherStarted, stop, workerRequest,
                   allWorkersHaveStopped, submitted>>

\* newUrls <- URLCrawlRequest{ParentURL: urlToCrawl.TargetURL, TargetURL: link}
\* for the next link of the page (the link itself is drawn as it is sent);
\* the queue of an earlier run is closed, and a send on a closed channel is
\* a run-time panic
ExecutePush(w) ==
    /\ ~crashed
    /\ worker[w] = "push"
    /\ linksLeft[w] > 0
    /\ IF queueClosed \/ workerRequest[w].newUrls # run
       THEN /\ crashed' = TRUE
            /\ UNCHANGED <<crawlRequestQueue, linksLeft>>
       ELSE /\ canSend(crawlRequestQueue, queueCapacity)
            /\ \E link \in hostURLs :
                  crawlRequestQueue' =
                      send(crawlRequestQueue,
                           URLCrawlRequest(workerRequest[w].TargetURL, link))
            /\ linksLeft' = [linksLeft EXCEPT ![w] = @ - 1]
            /\ UNCHANGED crashed
    /\ UNCHANGED <<documents, extraction, run, pc, crawlError, urlsFromXMLSitemap, queueCreated,
                   queueCapacity, queueClosed, urlCrawlRequest, visitedURLs, WorkQueue,
                   dispatcherStarted, stop, worker, workerRequest, allWorkersHaveStopped,
                   history>>

\* after the loop over the links: updateStatistics(workResult)
ExecuteReport(w) ==
    /\ ~crashed
    /\ worker[w] = "push"
    /\ linksLeft[w] = 0
    /\ statistics' = updateStatistics(workResult(workerRequest[w]))
    /\ executed' = executed \cup {executedItem(workerRequest[w], "html")}
    /\ worker' = [worker EXCEPT ![w] = "idle"]
    /\ UNCHANGED <<documents, extraction, run, crawlVars, dispatcherStarted, stop, workerRequest, linksLeft,
                   allWorkersHaveStopped, crashed, submitted>>

(***************************************************************************)
(* Specifications.                                                         *)
(***************************************************************************)
\* the goroutine that runs crawl
crawl ==
    \/ CrawlStart
    \/ CrawlReceive
    \/ CrawlCheckVisited
    \/ CrawlMarkVisited
    \/ CrawlSubmit

\* the goroutine of worker w
Worker(w) ==
    \/ WorkerTake(w)
    \/ WorkerExit(w)
    \/ ExecuteFetch(w)
    \/ ExecutePush(w)
    \/ ExecuteReport(w)

\* the steps of the program itself
ProgramStep ==
    \/ crawl
    \/ CloseQueue
    \/ DispatcherComplete
    \/ \E w \in AllWorkers : Worker(w)

Next ==
    \/ ProgramStep
    \/ Stop

Spec == Init /\ [][Next]_vars

\* every goroutine that can take a step eventually takes one; the stop
\* signal is external and may never come
Fairness ==
    /\ WF_vars(crawl)
    /\ WF_vars(CloseQueue)
    /\ WF_vars(DispatcherComplete)
    /\ \A w \in AllWorkers : WF_vars(Worker(w))

FairSpec == Spec /\ Fairness

\* the crawl runs with several workers
PoolInit == Init /\ NumberOfConcurrentRequests > 1

\* the least of it the completion signal needs: the dispatcher's goroutine runs
DispatcherFairSpec == PoolInit /\ [][Next]_vars /\ WF_vars(DispatcherComplete)

\* sitemap resolution alone, over every combination of documents
SitemapNext == CrawlStart

SitemapSpec == SitemapInit /\ [][SitemapNext]_vars

\* crawl called up to MaxRuns times in one process
RerunNext == Next \/ CrawlAgain

RerunSpec == Init /\ [][RerunNext]_vars

\* a crawl run with several workers whose root is a flat sitemap of
\* MaxSeeds + 1 pages, so that the queue holds more than one request
FifoInit ==
    /\ \E c \in {d \in Configurations : d.workers > 1} :
          /\ NumberOfConcurrentRequests = c.workers
          /\ hostURLs = c.pages
    /\ rootIndex = [err |-> InvalidSitemapIndexContent, locs |-> <<>>]
    /\ rootSitemap \in {[err |-> NoError, locs |-> l] :
                            l \in {s \in SeqsUpTo(hostURLs, MaxSeeds + 1) : Len(s) = MaxSeeds + 1}}
    /\ childSitemap = [c \in ChildLocs |-> [err |-> InvalidXMLSitemapContent, locs |-> <<>>]]
    /\ childIndex = NoNestedIndex
    /\ InitRun
    /\ NoExtraction

FifoSpec == FifoInit /\ [][Next]_vars

\* sitemap resolution where the child locations of the root index may
\* themselves be sitemap indexes
NestedInit ==
    /\ NumberOfConcurrentRequests = 1
    /\ hostURLs = PageLocs
    /\ rootIndex \in IndexDocuments
    /\ rootSitemap \in {[err |-> InvalidXMLSitemapContent, locs |-> <<>>],
                        [err |-> NoError, locs |-> <<"a">>]}
    /\ childSitemap \in [ChildLocs -> NestedSitemapDocuments]
    /\ childIndex \in [ChildLocs -> NestedIndexDocuments]
    /\ InitRun
    /\ NoExtraction

NestedSpec == NestedInit /\ [][SitemapNext]_vars

\* link extraction alone: one call of getDependentRequests per page and
\* document
LinkInit ==
    /\ NumberOfConcurrentRequests = 1
    /\ hostURLs = PageLocs
    /\ rootIndex = [err |-> InvalidSitemapIndexContent, locs |-> <<>>]
    /\ rootSitemap = [err |-> InvalidXMLSitemapContent, locs |-> <<>>]
    /\ childSitemap = [c \in ChildLocs |-> [err |-> InvalidXMLSitemapContent, locs |-> <<>>]]
    /\ childIndex = NoNestedIndex
    /\ InitRun
    /\ pageURL \in PageURLs
    /\ body \in Bodies
    /\ extractPc = "call"
    /\ extractedURLs = <<>>
    /\ extractError = NoError

\* the call of getDependentRequests at line 91 of createWorkRequest
Extract ==
    /\ extractPc = "call"
    /\ LET result == getDependentRequests(pageURL, body)
       IN  /\ extractPc' = IF result.panic THEN "panic" ELSE "returned"
           /\ extractedURLs' = result.urls
           /\ extractError' = result.err
    /\ UNCHANGED <<documents, run, crawlVars, poolVars, history, pageURL, body>>

LinkNext == Extract

LinkSpec == LinkInit /\ [][LinkNext]_vars

(***************************************************************************)
(* Properties.                                                             *)
(***************************************************************************)
blockedOnQueue(w) ==
    /\ worker[w] = "push"
    /\ linksLeft[w] > 0
    /\ ~queueClosed
    /\ ~canSend(crawlRequestQueue, queueCapacity)

blockedOnSubmit == pc = "submit" /\ ~canSend(WorkQueue, WorkQueueCapacity)

\* C1: within one crawl run no URL string is handed to the worker pool more
\* than once, and a request the main loop holds for dispatch (after its
\* check) is for a URL that has not been dispatched before.
C1_AtMostOneDispatch ==
    /\ \A u \in URLs : CopiesIn(u, submitted) <= 1
    /\ pc \in {"mark", "submit"} => CopiesIn(urlCrawlRequest.TargetURL, submitted) = 0

\* a page linked to itself: its request was queued after the page had been
\* dispatched, was received, and the main loop went on without a dispatch
C1_Witness ==
    /\ pc = "receive"
    /\ urlCrawlRequest.ParentURL = urlCrawlRequest.TargetURL
    /\ CopiesIn(urlCrawlRequest.TargetURL, submitted) = 1

\* C2: after the stop signal, as long as crawl has not returned (and the
\* process has not died), the program can take a step: it is never stuck
\* short of the return of crawl.
C2_StopTerminates ==
    (stop /\ ~crashed /\ dispatcherStarted /\ pc # "returned") => ENABLED ProgramStep

drained ==
    /\ dispatcherStarted /\ ~stop /\ ~crashed
    /\ executed # {}
    /\ pc = "receive"
    /\ crawlRequestQueue = <<>>
    /\ WorkQueue = <<>>
    /\ \A w \in Workers : worker[w] = "idle"

\* C4: when the frontier is drained and no stop signal has fired, the
\* program can still take a step towards the return of crawl.
C4_DrainedCrawlReturns == drained => ENABLED ProgramStep

\* a step of the queue: it stays as it is, or it is filled with the sitemap
\* URLs when it is made, or a worker's send appends one request while there
\* is room, or the main loop takes the oldest request
queueStep ==
    \/ crawlRequestQueue' = crawlRequestQueue
    \/ /\ pc = "start"
       /\ Len(crawlRequestQueue') = queueCapacity'
    \/ /\ Len(crawlRequestQueue) < queueCapacity
       /\ \E w \in Workers, link \in URLs :
             /\ linksLeft'[w] = linksLeft[w] - 1
             /\ crawlRequestQueue' =
                    Append(crawlRequestQueue,
                           [ParentURL |-> workerRequest[w].TargetURL, TargetURL |-> link])
    \/ /\ crawlRequestQueue # <<>>
       /\ pc = "receive"
       /\ crawlRequestQueue' = Tail(crawlRequestQueue)
       /\ urlCrawlRequest' = Head(crawlRequestQueue)

\* C5: the queue never holds more than its capacity; a send into the full
\* queue does not proceed (the sender's link stays unsent) until the main
\* loop has received; a send that proceeds leaves its request in the queue
\* behind those already there; a request leaves the queue only as the
\* request the main loop receives.
C5_Backpressure ==
    /\ [](Len(crawlRequestQueue) <= queueCapacity)
    /\ [][queueStep]_vars
    /\ [][\A w \in AllWorkers :
             (worker[w] = "push" /\ linksLeft'[w] < linksLeft[w])
                 => Len(crawlRequestQueue') = Len(crawlRequestQueue) + 1]_vars

\* a worker is blocked sending a link into the full queue
C5_Witness == \E w \in Workers : blockedOnQueue(w)

\* C6: the main loop is never blocked submitting to the pool while every
\* worker is blocked sending into the full queue.
C6_NoMutualBlocking ==
    ~(~stop /\ ~crashed /\ blockedOnSubmit /\ \A w \in Workers : blockedOnQueue(w))

\* C7: for every work item run to its end, updateStatistics has been called
\* exactly once with its parent and target if the fetch returned a
\* response, and not at all if the fetch failed with a transport error.
C7_StatisticsOncePerResponse ==
    \A e \in executed :
        CopiesIn(<<e.ParentURL, e.TargetURL>>, statistics)
            = IF e.outcome = "transportError" THEN 0 ELSE 1

indexResolves ==
    /\ rootIndex.err = NoError
    /\ \A i \in 1..Len(rootIndex.locs) :
          /\ rootIndex.locs[i] # BadLoc
          /\ childSitemap[rootIndex.locs[i]].err = NoError
          /\ BadLoc \notin Range(childSitemap[rootIndex.locs[i]].locs)

sitemapResolves == rootSitemap.err = NoError /\ BadLoc \notin Range(rootSitemap.locs)

RECURSIVE sumOfLengths(_)
sumOfLengths(locs) ==
    IF locs = <<>> THEN 0
    ELSE Len(childSitemap[Head(locs)].locs) + sumOfLengths(Tail(locs))

\* C8: when the root resolves as a sitemap index and as a flat sitemap,
\* getURLs returns without error the URLs of the child sitemaps together
\* with those of the flat sitemap, and nothing else.
C8_MergeOfBothProbes ==
    (pc # "start" /\ indexResolves /\ sitemapResolves) =>
        /\ crawlError = NoError
        /\ pc = "receive"
        /\ Range(urlsFromXMLSitemap) =
               UNION {Range(childSitemap[c].locs) : c \in Range(rootIndex.locs)}
               \cup Range(rootSitemap.locs)
        /\ Len(urlsFromXMLSitemap) = sumOfLengths(rootIndex.locs) + Len(rootSitemap.locs)

\* an index with one child that lists two pages, and a flat part with one
C8_Witness ==
    /\ pc = "receive"
    /\ rootIndex = [err |-> NoError, locs |-> <<"s1">>]
    /\ childSitemap["s1"] = [err |-> NoError, locs |-> <<"a", "b">>]
    /\ rootSitemap = [err |-> NoError, locs |-> <<"b">>]
    /\ urlsFromXMLSitemap = <<"a", "b", "b">>

bothInvalid ==
    /\ rootIndex.err = InvalidSitemapIndexContent
    /\ rootSitemap.err = InvalidXMLSitemapContent

\* C9: when both probes fail with their invalid-content error, crawl returns
\* the one error of getURLs, with no URLs, no queue, no dispatcher and no
\* dispatched task.
C9_NeitherShape ==
    (bothInvalid /\ pc # "start") =>
        /\ pc = "returned"
        /\ crawlError = NeitherError
        /\ urlsFromXMLSitemap = <<>>
        /\ ~queueCreated
        /\ crawlRequestQueue = <<>>
        /\ ~dispatcherStarted
        /\ WorkQueue = <<>>
        /\ submitted = EmptyBag
        /\ \A w \in AllWorkers : worker[w] = "idle"

\* crawl has returned for a root of neither shape, and the stop signal came
C9_Witness == bothInvalid /\ pc = "returned" /\ stop

\* C10: whenever both probes fail, each with an invalid-content error or a
\* URL parse error of an entry, crawl returns the error of getURLs.
C10_BothProbesFail ==
    LET indexError == getURLsFromSitemapIndex(xmlSitemapURL).err
        sitemapError == getURLsFromSitemap(xmlSitemapURL).err
    IN  (/\ pc # "start"
         /\ indexError \in {InvalidSitemapIndexContent, InvalidXMLSitemapContent, ParseError}
         /\ sitemapError \in {InvalidXMLSitemapContent, ParseError})
            => (pc = "returned" /\ crawlError # NoError)

\* the page locations of the child sitemaps of locs, in the order of locs
RECURSIVE pagesOfChildren(_)
pagesOfChildren(locs) ==
    IF locs = <<>> THEN <<>>
    ELSE childSitemap[Head(locs)].locs \o pagesOfChildren(Tail(locs))

\* C11: when exactly one of the two probes of the root succeeds and the
\* other fails, for whatever reason, getURLs returns without error exactly
\* the URLs of the probe that succeeded.
C11_OneProbeSucceeds ==
    /\ (pc # "start" /\ indexResolves /\ ~sitemapResolves) =>
           /\ crawlError = NoError
           /\ pc = "receive"
           /\ urlsFromXMLSitemap = pagesOfChildren(rootIndex.locs)
    /\ (pc # "start" /\ ~indexResolves /\ sitemapResolves) =>
           /\ crawlError = NoError
           /\ pc = "receive"
           /\ urlsFromXMLSitemap = rootSitemap.locs

\* the root is an index of two children and, as a flat sitemap, invalid
\* content; the pages of the children are the result
C11_Witness ==
    /\ pc = "receive"
    /\ rootIndex = [err |-> NoError, locs |-> <<"s1", "s2">>]
    /\ childSitemap["s1"] = [err |-> NoError, locs |-> <<"a">>]
    /\ childSitemap["s2"] = [err |-> NoError, locs |-> <<"b", "a">>]
    /\ rootSitemap.err = InvalidXMLSitemapContent
    /\ urlsFromXMLSitemap = <<"a", "b", "a">>

\* the example document: no <base>, and the links "/x", "y",
\* "http://example.com/z#frag" and "http://other.com/w"
exampleBody ==
    [readError |-> FALSE, base |-> <<>>,
     hrefs |-> <<rootRelativeHref, relativeHref, fragmentHref, externalHref>>]

exampleHost == httpPrefix \o <<"e", "x", "a", "m", "p", "l", "e", ".", "c", "o", "m">>

\* C12: for the page http://example.com/a/ and a document without base
\* declaration whose links are /x, y, http://example.com/z#frag and
\* http://other.com/w, link extraction returns exactly http://example.com/x,
\* http://example.com/a/y and http://example.com/z.
C12_ExampleLinks ==
    (extractPc # "call" /\ pageURL = Parse(examplePage).url /\ body = exampleBody) =>
        /\ extractPc = "returned"
        /\ extractError = NoError
        /\ {String(extractedURLs[i]) : i \in 1..Len(extractedURLs)} =
               {exampleHost \o <<"/", "x">>,
                exampleHost \o <<"/", "a", "/", "y">>,
                exampleHost \o <<"/", "z">>}

\* C13: every URL getDependentRequests returns has the host of the page it
\* was called for, as a URL value and as the string a task carries; so has
\* every task made of a returned link.
C13_SameHostOnly ==
    extractPc = "returned" =>
        \A i \in 1..Len(extractedURLs) :
            /\ extractedURLs[i].Host = pageURL.Host
            /\ Parse(String(extractedURLs[i])).url.Host = pageURL.Host
            /\ URLCrawlRequest(pageURL, extractedURLs[i]).TargetURL.Host
                   = URLCrawlRequest(pageURL, extractedURLs[i]).ParentURL.Host

\* a document with a link to another host and a link to the host of the
\* page: only the latter is returned
C13_Witness ==
    /\ extractPc = "returned"
    /\ pageURL = Parse(examplePage).url
    /\ body.base = <<>>
    /\ body.hrefs = <<externalHref, rootRelativeHref>>
    /\ Len(extractedURLs) = 1
    /\ String(extractedURLs[1]) = exampleHost \o <<"/", "x">>

\* C17: link extraction never aborts on a single link: the slice that cuts
\* the fragment stays within the bounds of the string (hashPosition - 1 is
\* never negative), so a call of getDependentRequests never ends in a panic.
C17_NeverAborts == extractPc # "panic"

\* C14: the seen-set belongs to one crawl run: at the start of every call of
\* crawl it is empty.
C14_SeenSetPerRun == pc = "start" => visitedURLs = {}

\* C15 (as stated): the membership test and the marking are one atomic
\* step: a request the main loop has found unseen and has not yet handed to
\* the pool is marked in the seen-set.
C15_AtomicTestAndMark ==
    pc \in {"mark", "submit"} => urlCrawlRequest.TargetURL \in visitedURLs

\* C15 (amended): the test and the marking are two steps, the test under the
\* read lock and the write under the write lock.  Only the main loop of
\* crawl changes the seen-set: the URL it found unseen is still unseen when
\* it is marked, between the test and the write the seen-set does not
\* change, and every change of the seen-set is the marking of that one URL.
C15_TestThenMark ==
    /\ [](pc = "mark" => urlCrawlRequest.TargetURL \notin visitedURLs)
    /\ [][pc = "mark" =>
            \/ visitedURLs' = visitedURLs /\ pc' = "mark"
            \/ /\ pc' = "submit"
               /\ visitedURLs' = visitedURLs \cup {urlCrawlRequest.TargetURL}]_vars
    /\ [][visitedURLs' # visitedURLs => pc = "mark"]_vars

\* the main loop is between the test and the write of a second URL while a
\* worker is sending the links of a page
C15_Witness ==
    /\ pc = "mark"
    /\ visitedURLs # {}
    /\ \E w \in Workers : worker[w] = "push" /\ linksLeft[w] > 0

C18_FrontierFIFO ==
    /\ [][(pc = "start" /\ pc' = "receive") =>
            crawlRequestQueue' = seedRequests(rootSitemap.locs)]_vars
    /\ [][(Len(crawlRequestQueue') > Len(crawlRequestQueue) /\ pc # "start") =>
            /\ Len(crawlRequestQueue') = Len(crawlRequestQueue) + 1
            /\ SubSeq(crawlRequestQueue', 1, Len(crawlRequestQueue)) = crawlRequestQueue]_vars
    /\ [][Len(crawlRequestQueue') < Len(crawlRequestQueue) =>
            /\ pc = "receive"
            /\ urlCrawlRequest' = Head(crawlRequestQueue)
            /\ crawlRequestQueue' = Tail(crawlRequestQueue)]_vars
    /\ [][Len(crawlRequestQueue') = Len(crawlRequestQueue) =>
            crawlRequestQueue' = crawlRequestQueue]_vars
    /\ [][urlCrawlRequest' # urlCrawlRequest => (pc = "receive" /\ pc' = "check")]_vars
    /\ [][submitted' # submitted =>
            /\ pc = "submit"
            /\ pc' = "receive"
            /\ submitted' = submitted (+) SetToBag({urlCrawlRequest.TargetURL})
            /\ WorkQueue' = Append(WorkQueue, createWorkRequest(urlCrawlRequest, run))]_vars
    /\ [](submitted # EmptyBag => BagIn(rootSitemap.locs[1], submitted))

\* the main loop has taken a request while two different requests wait in
\* the queue, after the first submission
C18_Witness ==
    /\ pc = "check"
    /\ Len(crawlRequestQueue) >= 2
    /\ crawlRequestQueue[1] # crawlRequestQueue[2]
    /\ submitted # EmptyBag

\* C19: sitemap resolution goes one level deep: a child location of the
\* root index is resolved as a flat sitemap only, never as a sitemap index.
\* Whatever a child location holds as a sitemap index, the outcome of
\* getURLs is that of the root index, of the flat sitemaps of its child
\* locations and of the root as a flat sitemap; pages listed only below a
\* nested index are not returned.
C19_OneLevelDeep ==
    pc # "start" =>
        /\ crawlError = IF bothInvalid THEN NeitherError ELSE NoError
        /\ urlsFromXMLSitemap =
               (IF indexResolves THEN pagesOfChildren(rootIndex.locs) ELSE <<>>)
               \o (IF sitemapResolves /\ ~bothInvalid THEN rootSitemap.locs ELSE <<>>)

\* the child s1 of the root index is a flat sitemap of page a and also a
\* sitemap index of s2, whose page b is not returned
C19_Witness ==
    /\ pc = "receive"
    /\ rootIndex = [err |-> NoError, locs |-> <<"s1">>]
    /\ rootSitemap.err = InvalidXMLSitemapContent
    /\ childSitemap["s1"] = [err |-> NoError, locs |-> <<"a">>]
    /\ childIndex["s1"] = [err |-> NoError, locs |-> <<"s2">>]
    /\ childSitemap["s2"] = [err |-> NoError, locs |-> <<"b">>]
    /\ urlsFromXMLSitemap = <<"a">>

\* C20: the index probe is all or nothing: when the root is a sitemap index
\* and one of its entries does not resolve, getURLs returns none of the
\* pages of the entries that do resolve; what it returns is what the root
\* gives as a flat sitemap.
C20_IndexAllOrNothing ==
    (pc # "start" /\ rootIndex.err = NoError /\ ~indexResolves) =>
        /\ getURLsFromSitemapIndex(xmlSitemapURL).urls = <<>>
        /\ getURLsFromSitemapIndex(xmlSitemapURL).err # NoError
        /\ urlsFromXMLSitemap = IF sitemapResolves THEN rootSitemap.locs ELSE <<>>

\* the first child of the root index resolves to page a, the second does
\* not resolve; getURLs returns only page b of the flat sitemap
C20_Witness ==
    /\ pc = "receive"
    /\ rootIndex = [err |-> NoError, locs |-> <<"s1", "s2">>]
    /\ childSitemap["s1"] = [err |-> NoError, locs |-> <<"a">>]
    /\ childSitemap["s2"].err = FetchError
    /\ rootSitemap = [err |-> NoError, locs |-> <<"b">>]
    /\ urlsFromXMLSitemap = <<"b">>

=============================================================================
